---- MODULE Spec2Model ----
(***************************************************************************)
(* Best-of-N orchestration (scripts/query.ts, per-model-synthesis.ts,      *)
(* cross-model-synthesis.ts, models.ts) as a state machine.                *)
(*                                                                         *)
(* Conventions.  Arrays are sequences; the source's 0-based position i is  *)
(* the sequence position i+1 (operator At).  A JavaScript number x that    *)
(* may be fractional (the judge's best_index) is represented by the        *)
(* integer Scale*x.  A text is a record that names where it came from and  *)
(* how long it is; every empty string is the one value EmptyText.          *)
(***************************************************************************)
EXTENDS Integers, Sequences, FiniteSets, TLC

\* ---- bounds of the model -------------------------------------------------
MaxModels == 2
MaxSamples == 2
MaxCalls == 4
MaxLen == 2
Scale == 2
MaxTemp == 3
MaxRangeSamples == 4
Tenths == 10

\* ---- constants of the program ----------------------------------------------
\* defaults of the commander options -n, -T (in tenths), -t
CliDefaultNumSamples == 4
CliDefaultTemperature == 8
CliDefaultTimeout == 180

\* the last operands of the cascade of runQuery (temperature in tenths)
DefaultNumSamples == 4
DefaultTemperature == 8
DefaultTimeoutSeconds == 180

VARIABLES
    options,          \* the CLI options runQuery was called with
    modelNames,       \* resolved list of model ids
    phase,            \* position of runQuery
    exitCode,         \* -1 while the process runs, else its exit status
    timersFired,      \* number of stagger timers (per model) that have fired
    samplePromises,   \* per pipeline: the N sample promises
    dispatched,       \* per pipeline, per ordinal: querySingleModel calls made
    pc,               \* per pipeline: position of the modelPromises callback
    samples,          \* per pipeline: the retained (successful) samples
    judge,            \* per pipeline: judge requests made and their result
    allModelResults,  \* results accumulator
    tracker,          \* BonProgressTracker.models
    liveDoc,          \* per pipeline: what its live-file section holds
    synth,            \* cross-model synthesis: request state, input, result
    artifact,         \* the persisted artifact tree
    summary,          \* what the final summary printed
    query,            \* one call of querySingleModel taken on its own
    probe,            \* last application of a pure function: input and output
    liveFile          \* the text of the file at liveFilePath, taken on its own

\* the state of a run of runQuery
run == << options, modelNames, phase, exitCode, timersFired, samplePromises,
          dispatched, pc, samples, judge, allModelResults, tracker, liveDoc,
          synth, artifact, summary >>

vars == << options, modelNames, phase, exitCode, timersFired, samplePromises,
           dispatched, pc, samples, judge, allModelResults, tracker, liveDoc,
           synth, artifact, summary, query, probe, liveFile >>

\* ---- arrays and numbers --------------------------------------------------
At(seq, i) == seq[i + 1]

HasIndex(seq, x) == x % Scale = 0 /\ (x \div Scale) \in 0 .. (Len(seq) - 1)

\* seq[x] for a JavaScript number x: undefined unless x is an integer in range
Elem(seq, x) == At(seq, x \div Scale)

Range(seq) == { seq[k] : k \in 1 .. Len(seq) }

IndexOf(seq, x) ==
    IF x \in Range(seq)
    THEN (CHOOSE k \in 1 .. Len(seq) : seq[k] = x /\ \A j \in 1 .. (k - 1) : seq[j] # x) - 1
    ELSE -1

\* ---- texts ----------------------------------------------------------------
EmptyText == [origin |-> "empty", model |-> 0, ordinal |-> 0, len |-> 0]

Undefined == [origin |-> "undefined", model |-> 0, ordinal |-> 0, len |-> 0]

\* result.text of the query for sample `ordinal` of `model`
SampleText(model, ordinal, len) ==
    IF len = 0 THEN EmptyText
    ELSE [origin |-> "sample", model |-> model, ordinal |-> ordinal, len |-> len]

\* JavaScript truthiness of a string | undefined
Truthy(text) == text.origin \notin {"empty", "undefined"}

\* a || b
OrElse(a, b) == IF Truthy(a) THEN a ELSE b

\* ---- configuration (config.json) -------------------------------------------
DeepResearchModel == MaxModels + 1

\* an id that config.models does not have
UnknownModel == MaxModels + 2

ConfigModelIds == 1 .. (MaxModels + 1)

ModelConfig(id) ==
    IF id = DeepResearchModel
    THEN [provider |-> "openai-deep", type |-> "api", requires_browser |-> FALSE,
          deep_research |-> TRUE]
    ELSE [provider |-> "openai", type |-> "api", requires_browser |-> FALSE,
          deep_research |-> FALSE]

PresetNames == {"quick", "deep"}

PresetModelList(name) ==
    IF name = "quick"
    THEN << DeepResearchModel, 1 >>
    ELSE << DeepResearchModel >>

\* config.models of the run, in key order
ConfigModels == [id \in ConfigModelIds |-> ModelConfig(id)]

\* what a `provider` field of config.json can hold: the six of the interface,
\* or anything else (the file is parsed, not validated)
Providers == {"openai", "google", "xai", "anthropic", "openai-deep", "gemini-deep", "other"}

\* every entry config.models can hold
ModelConfigs ==
    [provider : Providers, type : {"api", "browser"}, requires_browser : BOOLEAN,
     deep_research : BOOLEAN]

\* config.models[modelName] for a name that is no key
NoEntry ==
    [provider |-> "undefined", type |-> "undefined", requires_browser |-> FALSE,
     deep_research |-> FALSE]

\* the filter without the requires_browser test
EligibleByTypeOnly(mc) ==
    /\ ~(mc.type = "browser")
    /\ ~mc.deep_research
    /\ ~(mc.provider = "openai-deep" \/ mc.provider = "gemini-deep")

\* the callback of the filter in getEligibleModels
Eligible(mc) ==
    /\ ~(mc.type = "browser" \/ mc.requires_browser)
    /\ ~mc.deep_research
    /\ ~(mc.provider = "openai-deep" \/ mc.provider = "gemini-deep")

\* getEligibleModels(config): Object.entries(config.models).filter(...).map(name);
\* the names of a configuration are its positions
EligibleNames(models) ==
    SelectSeq([k \in 1 .. Len(models) |-> k], LAMBDA name : Eligible(models[name]))

getEligibleModels == Range(EligibleNames(ConfigModels))

\* preset.models.filter(name => eligible.has(name))
PresetModels(presetList, models) ==
    SelectSeq(presetList, LAMBDA name : name \in Range(EligibleNames(models)))

getPresetModels(presetName) == PresetModels(PresetModelList(presetName), ConfigModels)

\* createModel: the provider handle, or Null
Null == "null"

\* createModel without the test of the type
createModelByProviderOnly(mc) ==
    IF mc = NoEntry THEN Null
    ELSE IF mc.provider \in {"openai", "google", "xai", "anthropic"}
         THEN mc.provider
         ELSE Null

\* createModel from `if (!modelConfig)` on
createModelFor(mc) ==
    IF mc = NoEntry THEN Null
    ELSE IF mc.type = "browser" THEN Null
    ELSE IF mc.provider \in {"openai", "google", "xai", "anthropic"}
         THEN mc.provider
         ELSE Null

\* config.models[modelName]
ConfigEntry(id) == IF id \in ConfigModelIds THEN ModelConfig(id) ELSE NoEntry

createModel(id) == createModelFor(ConfigEntry(id))

\* configurations of up to MaxModels entries
ConfigsOver(entries) == UNION { [1 .. n -> entries] : n \in 0 .. MaxModels }

\* one entry of each kind the eligibility filter tells apart
KindsOfEntry ==
    { [provider |-> "anthropic", type |-> "api", requires_browser |-> FALSE,
       deep_research |-> FALSE],
      [provider |-> "openai", type |-> "browser", requires_browser |-> FALSE,
       deep_research |-> FALSE],
      [provider |-> "google", type |-> "api", requires_browser |-> TRUE,
       deep_research |-> FALSE],
      [provider |-> "xai", type |-> "api", requires_browser |-> FALSE,
       deep_research |-> TRUE],
      [provider |-> "gemini-deep", type |-> "api", requires_browser |-> FALSE,
       deep_research |-> FALSE] }

\* preset lists over the names of a configuration and one name it lacks
PresetListsFor(models) ==
    UNION { [1 .. n -> 1 .. (Len(models) + 1)] : n \in 0 .. MaxModels }

\* ---- per-model judge (per-model-synthesis.ts) -------------------------------
\* What a judge / merge request can come back with.  kind "throw": the request
\* rejects; "empty": it returns the empty text; "garbage": a text from which
\* extractJson gets nothing or whose best_index is not a number; "json": an
\* object whose best_index is the number best/Scale; "text": a merge reply whose
\* body is blank or not and that has the "---" separator line or not.
JudgeReplies ==
    { [kind |-> k, best |-> 0, blank |-> FALSE, sep |-> FALSE] :
        k \in {"throw", "empty", "garbage"} }
    \cup { [kind |-> "json", best |-> b, blank |-> FALSE, sep |-> FALSE] :
             b \in 0 .. (Scale * (MaxSamples + 1)) }

MergeReplies ==
    { [kind |-> k, best |-> 0, blank |-> FALSE, sep |-> FALSE] : k \in {"throw", "empty"} }
    \cup { [kind |-> "text", best |-> 0, blank |-> bl, sep |-> sp] :
             bl \in BOOLEAN, sp \in BOOLEAN }

\* the first try block: it threw, or assigned the empty text or a text to raw
PrimaryOutcome(reply) ==
    IF reply.kind = "throw" THEN "threw"
    ELSE IF reply.kind = "empty" THEN "empty" ELSE "text"

\* the secondary model asked whatever the primary returned
AlwaysNoRaw(reply) == TRUE

\* generateText threw, or `raw` is falsy
NoRaw(reply) == reply.kind \in {"throw", "empty"}

\* the validation without `bestIndex > sampleCount`
parseWithoutUpperBound(reply, sampleCount) ==
    IF reply.kind # "json" THEN [ok |-> FALSE, bestIndex |-> 0]
    ELSE IF reply.best < Scale
         THEN [ok |-> FALSE, bestIndex |-> 0]
         ELSE [ok |-> TRUE, bestIndex |-> reply.best - Scale]

\* null is [ok |-> FALSE]; bestIndex is the 0-based index, times Scale
parseComparisonResponse(reply, sampleCount) ==
    IF reply.kind # "json" THEN [ok |-> FALSE, bestIndex |-> 0]
    ELSE IF reply.best < Scale \/ reply.best > Scale * sampleCount
         THEN [ok |-> FALSE, bestIndex |-> 0]
         ELSE [ok |-> TRUE, bestIndex |-> reply.best - Scale]

\* the loop with `>=` in place of `>`: the last of the longest
RECURSIVE LongestFromLastTie(_, _, _, _)
LongestFromLastTie(smp, i, longestIdx, longestLen) ==
    IF i >= Len(smp) THEN longestIdx
    ELSE IF At(smp, i).response.len >= longestLen
         THEN LongestFromLastTie(smp, i + 1, i, At(smp, i).response.len)
         ELSE LongestFromLastTie(smp, i + 1, longestIdx, longestLen)

\* the loop of the final fallback, from position i on
RECURSIVE LongestFrom(_, _, _, _)
LongestFrom(smp, i, longestIdx, longestLen) ==
    IF i >= Len(smp) THEN longestIdx
    ELSE IF At(smp, i).response.len > longestLen
         THEN LongestFrom(smp, i + 1, i, At(smp, i).response.len)
         ELSE LongestFrom(smp, i + 1, longestIdx, longestLen)

\* the single-sample test never taken
NeverSingle(smp) == FALSE

\* `if (samples.length === 1)` of compareModelSamples and brainstormModelSamples
SingleSample(smp) == Len(smp) = 1

\* compareModelSamples with one sample: no request
CompareSingle ==
    [bestIndex |-> 0, note |-> "single", mergedIdeas |-> Undefined]

\* compareModelSamples from "Parse response" on; raw is the reply in hand
CompareFromRaw(smp, raw) ==
    LET parsed == parseComparisonResponse(raw, Len(smp)) IN
    IF ~NoRaw(raw) /\ parsed.ok
    THEN [bestIndex |-> parsed.bestIndex, note |-> "judged", mergedIdeas |-> Undefined]
    ELSE [bestIndex |-> Scale * LongestFrom(smp, 0, 0, 0), note |-> "fallback",
          mergedIdeas |-> Undefined]

\* the concatenation fallback of brainstormModelSamples
ConcatText(model, smp) ==
    [origin |-> "concat", model |-> model, ordinal |-> 0,
     len |-> Len(smp),
     parts |-> [k \in 1 .. Len(smp) |-> [label |-> k, text |-> smp[k].response]]]

MergedText(model, blank) ==
    IF blank THEN EmptyText
    ELSE [origin |-> "merge", model |-> model, ordinal |-> 0, len |-> 1]

BrainstormSingle(smp) ==
    [bestIndex |-> 0, note |-> "single", mergedIdeas |-> At(smp, 0).response]

\* brainstormModelSamples from `if (raw)` on
BrainstormFromRaw(model, smp, raw) ==
    IF ~NoRaw(raw)
    THEN [bestIndex |-> 0, note |-> IF raw.sep THEN "notes" ELSE "generic",
          mergedIdeas |-> MergedText(model, raw.blank)]
    ELSE [bestIndex |-> 0, note |-> "fallback", mergedIdeas |-> ConcatText(model, smp)]

\* ---- progress tracker (BonProgressTracker) -----------------------------------
NewTracker(names, numSamples) ==
    [name \in Range(names) |->
        [total |-> numSamples, completed |-> 0, failed |-> 0,
         comparing |-> FALSE, comparisonDone |-> FALSE]]

\* every completion counted as a success
sampleCompleteAsSuccess(t, name, success) ==
    IF name \in DOMAIN t THEN [t EXCEPT ![name].completed = @ + 1] ELSE t

sampleComplete(t, name, success) ==
    IF name \in DOMAIN t
    THEN IF success
         THEN [t EXCEPT ![name].completed = @ + 1]
         ELSE [t EXCEPT ![name].failed = @ + 1]
    ELSE t

setComparing(t, name) ==
    IF name \in DOMAIN t THEN [t EXCEPT ![name].comparing = TRUE] ELSE t

\* comparing switched off without comparisonDone
setComparingOff(t, name) ==
    IF name \in DOMAIN t THEN [t EXCEPT ![name].comparing = FALSE] ELSE t

\* comparisonDone set with comparing left as it is
setDoneOnly(t, name) ==
    IF name \in DOMAIN t THEN [t EXCEPT ![name].comparisonDone = TRUE] ELSE t

setComparisonDone(t, name) ==
    IF name \in DOMAIN t
    THEN [t EXCEPT ![name].comparing = FALSE, ![name].comparisonDone = TRUE]
    ELSE t

\* ---- single-sample outcomes (querySingleModel) ------------------------------
QueryOutcomes ==
    { [status |-> "success", len |-> l] : l \in 0 .. MaxLen }
    \cup { [status |-> st, len |-> 0] : st \in {"error", "timeout"} }

PendingPromise ==
    [state |-> "pending", status |-> "none", response |-> Undefined, call |-> -1]

\* the SingleQueryResult that the query for sample `ordinal` resolves with
QueryResult(name, ordinal, outcome) ==
    [state |-> "settled", status |-> outcome.status,
     response |-> IF outcome.status = "success"
                  THEN SampleText(name, ordinal, outcome.len) ELSE Undefined,
     call |-> ordinal]

\* the loop bounded by `i <= numSamples`
OneTooManyPromises(n) == [k \in 1 .. (n + 1) |-> PendingPromise]

\* the for loop that fills samplePromises: one promise per ordinal 0..n-1
NewSamplePromises(n) == [k \in 1 .. n |-> PendingPromise]

\* one AbortController for the batch: a timeout settles every query in flight
SettleWithSharedAbort(promises, i, result) ==
    [k \in 1 .. Len(promises) |->
        IF k = i + 1 THEN result
        ELSE IF result.status = "timeout" /\ promises[k].state = "inflight"
             THEN [result EXCEPT !.call = k - 1]
             ELSE promises[k]]

\* resolve(result) in the timer callback of sample i: that promise and no other
SettleOne(promises, i, result) == [promises EXCEPT ![i + 1] = result]

\* Promise.all(samplePromises) has resolved
AllSettled(promises) == \A k \in 1 .. Len(promises) : promises[k].state = "settled"

\* "Collect successful samples": the loop over results, from position i on
RECURSIVE CollectFrom(_, _, _)
CollectFrom(results, i, acc) ==
    IF i >= Len(results) THEN acc
    ELSE LET r == At(results, i) IN
         IF r.status = "success" /\ Truthy(r.response)
         THEN CollectFrom(results, i + 1,
                          Append(acc, [index |-> i, response |-> r.response]))
         ELSE CollectFrom(results, i + 1, acc)

\* the loop with `index: samples.length` in place of `index: i`
RECURSIVE CollectRenumberedFrom(_, _, _)
CollectRenumberedFrom(results, i, acc) ==
    IF i >= Len(results) THEN acc
    ELSE LET r == At(results, i) IN
         IF r.status = "success" /\ Truthy(r.response)
         THEN CollectRenumberedFrom(results, i + 1,
                                    Append(acc, [index |-> Len(acc), response |-> r.response]))
         ELSE CollectRenumberedFrom(results, i + 1, acc)

CollectSamplesRenumbered(results) == CollectRenumberedFrom(results, 0, << >>)

CollectSamples(results) == CollectFrom(results, 0, << >>)

\* ---- orchestrator helpers (runQuery) -----------------------------------------
NumPipelines == Len(modelNames)

Pipelines == 1 .. NumPipelines

Alive == exitCode = -1

BonModelResult(name, smp, cmp) ==
    [modelName |-> name, samples |-> smp, bestIndex |-> cmp.bestIndex,
     note |-> cmp.note,
     brainstormSummary |-> IF options.brainstorm THEN cmp.mergedIdeas ELSE Undefined]

\* the section written for a judged model takes the merged branch
MergedBranch(mr) == options.brainstorm /\ Truthy(mr.brainstormSummary)

\* `bestSample.index` / `best.index` on an undefined sample: a TypeError
BestSampleThrows(mr) == ~MergedBranch(mr) /\ ~HasIndex(mr.samples, mr.bestIndex)

\* what updateModelSection is given for a judged model
ResultSection(mr) ==
    IF MergedBranch(mr)
    THEN [kind |-> "merged", shown |-> 0, text |-> mr.brainstormSummary]
    ELSE [kind |-> "best", shown |-> Elem(mr.samples, mr.bestIndex).index + 1,
          text |-> Elem(mr.samples, mr.bestIndex).response]

\* k in the heading "Best response (sample k of N)": bestSample.index + 1
BestHeadingNumber(mr) == Elem(mr.samples, mr.bestIndex).index + 1

\* the numbers of the "### Sample n" lines that carry the star:
\* s.index === modelResult.bestIndex
StarredNumbers(mr) ==
    { mr.samples[j].index + 1 :
        j \in { i \in 1 .. Len(mr.samples) : mr.samples[i].index * Scale = mr.bestIndex } }

\* n in "**Best response:** Sample n of m" of the comparison notes, times
\* Scale: bestIndex + 1; the single-sample note has no number
ComparisonNoteNumbers(mr) ==
    IF mr.note = "single" THEN { } ELSE { mr.bestIndex + Scale }

PlaceholderSection == [kind |-> "placeholder", shown |-> 0, text |-> Undefined]

ErrorSection == [kind |-> "error", shown |-> 0, text |-> Undefined]

ModelOrderKey(mr, names) == IndexOf(names, mr.modelName)

RECURSIVE InsertByModelOrder(_, _, _)
InsertByModelOrder(sorted, mr, names) ==
    IF sorted = << >> THEN << mr >>
    ELSE IF ModelOrderKey(mr, names) < ModelOrderKey(Head(sorted), names)
         THEN << mr >> \o sorted
         ELSE << Head(sorted) >> \o InsertByModelOrder(Tail(sorted), mr, names)

RECURSIVE InsertionSort(_, _)
InsertionSort(results, names) ==
    IF results = << >> THEN << >>
    ELSE InsertByModelOrder(InsertionSort(SubSeq(results, 1, Len(results) - 1), names),
                            results[Len(results)], names)

\* the results left in the order the pipelines pushed them
LeaveInCompletionOrder(results, names) == results

\* allModelResults.sort((a, b) => indexOf(a) - indexOf(b)): stable, ascending
SortByModelOrder(results, names) == InsertionSort(results, names)

\* ---- cross-model synthesis (cross-model-synthesis.ts) ------------------------
SentinelText == [origin |-> "sentinel", model |-> 0, ordinal |-> 0, len |-> 1]

SynthesisText(len) ==
    IF len = 0 THEN EmptyText
    ELSE [origin |-> "synthesis", model |-> 0, ordinal |-> 0, len |-> len]

\* mr.samples[mr.bestIndex]?.response
BestSampleResponse(mr) ==
    IF HasIndex(mr.samples, mr.bestIndex)
    THEN Elem(mr.samples, mr.bestIndex).response
    ELSE Undefined

\* the `response` field of one bestResponses entry
RepresentativeOutput(mr) ==
    IF options.brainstorm
    THEN OrElse(OrElse(mr.brainstormSummary, BestSampleResponse(mr)), EmptyText)
    ELSE OrElse(BestSampleResponse(mr), EmptyText)

BestResponses(results) ==
    [k \in 1 .. Len(results) |->
        [modelName |-> results[k].modelName,
         response |-> RepresentativeOutput(results[k]),
         sampleCount |-> Len(results[k].samples),
         bestIndex |-> results[k].bestIndex]]

\* every response passed on, empty or not
UnfilteredResponses(best) == best

\* synthesiseBestResponses: bestResponses.filter((r) => r.response)
SuccessfulResponses(best) == SelectSeq(best, LAMBDA r : Truthy(r.response))

\* the guard without the shouldSynthesise flag
GuardIgnoringFlag(results) == Len(results) > 0

\* the guard of the synthesis block of runQuery
SynthesisGuard(results) == options.synthesise /\ Len(results) > 0

SynthesisReplies == {"throw", "empty", "text"}

\* ---- the live file as text (query.ts, "Live file management") -----------------
\* The file is a sequence of tokens: a heading line followed by a blank line
\* (its number of # and its title), a horizontal rule "---" between blank
\* lines, a run of other text, and a replacement pattern of String.replace
\* (the dollar sign followed by a dollar sign, an ampersand, a backquote or a
\* quote) standing in a text.  Titles are numbers: the display
\* names of the selected models are 1, 2, ..., the others are named below.
QueryTitle == -1

SynthesisTitle == 0

ResultTitle == -2

Tok(kind, level, title, what) == [kind |-> kind, level |-> level, title |-> title, what |-> what]

Heading(level, title) == Tok("heading", level, title, "")

Hr == Tok("hr", 0, 0, "")

Text(what, owner) == Tok("text", 0, owner, what)

Dollar(pattern) == Tok("dollar", 0, 0, pattern)

\* what each pattern stands for: a dollar sign, the matched text, the text
\* before the match, the text after the match
DollarPatterns == {"dollar", "matched", "before", "after"}

RECURSIVE Flatten(_)
Flatten(seqs) == IF seqs = << >> THEN << >> ELSE Head(seqs) \o Flatten(Tail(seqs))

\* the least element of a non-empty set of positions
First(positions) == CHOOSE k \in positions : \A j \in positions : k <= j

\* text.replace(/^# /gm, '## ')
normaliseHeadings(text) ==
    [k \in 1 .. Len(text) |->
        IF text[k].kind = "heading" /\ text[k].level = 1
        THEN [text[k] EXCEPT !.level = 2]
        ELSE text[k]]

\* "# ${displayName}\n\n_Sampling ${numSamples} responses..._\n\n---\n\n"
PlaceholderText(displayName) ==
    << Heading(1, displayName), Text("placeholder", displayName), Hr >>

\* the title, the prompt and settings lines, and the first rule
MetadataBlock == << Heading(1, QueryTitle), Text("metadata", QueryTitle), Hr >>

createLiveFile(names) ==
    MetadataBlock \o Flatten([k \in 1 .. Len(names) |-> PlaceholderText(names[k])])

\* what String.replace puts in place of one token of the replacement string
ExpandPattern(tok, before, matched, after) ==
    IF tok.kind # "dollar" THEN << tok >>
    ELSE IF tok.what = "dollar" THEN << Text("dollar", 0) >>
    ELSE IF tok.what = "matched" THEN matched
    ELSE IF tok.what = "before" THEN before
    ELSE after

\* where /# name\n\n/ can match: a heading line of that title, whatever its level
HeadingsTitled(content, title) ==
    { k \in 1 .. Len(content) : content[k].kind = "heading" /\ content[k].title = title }

\* content.replace(pattern, replacement): the first match of "# name\n\n", up
\* to the next "\n# " of a top-level heading or the end; a heading matched at
\* a deeper level keeps the # in front of the match
updateModelSection(content, displayName, sectionContent) ==
    IF HeadingsTitled(content, displayName) = { } THEN content
    ELSE LET start == First(HeadingsTitled(content, displayName))
             stops == { k \in (start + 1) .. Len(content) :
                          content[k].kind = "heading" /\ content[k].level = 1 }
             stop == IF stops = { } THEN Len(content) + 1 ELSE First(stops)
             before == SubSeq(content, 1, start - 1)
             matched == SubSeq(content, start, stop - 1)
             after == SubSeq(content, stop, Len(content))
         IN before
            \o << Heading(content[start].level, displayName) >>
            \o Flatten([k \in 1 .. Len(sectionContent) |->
                            ExpandPattern(sectionContent[k], before, matched, after)])
            \o after

\* insertSynthesisInLiveFile: /# Synthesis\n\n[\s\S]*?\n\n---\n\n/ replaced by
\* the section if it matches, else the section put after the first rule
insertSynthesisInLiveFile(content, synthesis) ==
    LET synthesisSection(level) == << Heading(level, SynthesisTitle) >> \o synthesis \o << Hr >>
        rules == { k \in 1 .. Len(content) : content[k].kind = "hr" }
        existing == { k \in HeadingsTitled(content, SynthesisTitle) :
                        \E j \in rules : j > k }
    IN IF existing # { }
       THEN LET start == First(existing)
                stop == First({ j \in rules : j > start })
            IN SubSeq(content, 1, start - 1)
               \o synthesisSection(content[start].level)
               \o SubSeq(content, stop + 1, Len(content))
       ELSE IF rules # { }
            THEN SubSeq(content, 1, First(rules))
                 \o synthesisSection(1)
                 \o SubSeq(content, First(rules) + 1, Len(content))
            ELSE content

\* the answer of a model: plain text, or text with one heading line, or text with
\* one replacement pattern in it
ResponseTexts(name, titles) ==
    { << Text("response", name) >> }
    \cup { << Text("response", name), Heading(1, t), Text("response", name) >> : t \in titles }
    \cup { << Text("response", name), Dollar(d) >> : d \in DollarPatterns }

\* "section" of the pipeline for a judged model: the result heading, the
\* representative output, the report and the samples, the closing rule
ResultSectionText(name, response) ==
    << Heading(2, ResultTitle) >> \o normaliseHeadings(response)
        \o << Text("details", name), Hr >>

\* "**Error:** All ${numSamples} samples failed.\n\n${errors}"
ErrorSectionText(name) == << Text("error", name) >>

\* the text synthesiseBestResponses returned
SynthesisBody == << Text("synthesis", SynthesisTitle) >>

MaxInsertions == 2

NoLiveFile ==
    [names |-> << >>, content |-> << >>, written |-> << >>, beforeSynthesis |-> << >>,
     insertions |-> 0]

\* ---- querySingleModel, one call ---------------------------------------------------
NoResult == [status |-> "none", hasResponse |-> FALSE, len |-> 0, error |-> "none"]

IdleQuery ==
    [pc |-> "idle", model |-> 0, timer |-> "none", calls |-> 0, aborted |-> FALSE,
     result |-> NoResult]

\* What generateText can throw on its own account: an Error of some name, or a
\* value that is no Error.  The name AbortError belongs to the rejection that
\* follows controller.abort().
ThrownValues ==
    { [isError |-> TRUE, name |-> n] : n \in {"Error", "APICallError"} }
    \cup { [isError |-> FALSE, name |-> "none"] }

AbortError == [isError |-> TRUE, name |-> "AbortError"]

\* the object returned from the catch block
CatchResult(thrown) ==
    IF thrown.isError /\ thrown.name = "AbortError"
    THEN [status |-> "timeout", hasResponse |-> FALSE, len |-> 0, error |-> "timeout_after"]
    ELSE [status |-> "error", hasResponse |-> FALSE, len |-> 0,
          error |-> IF thrown.isError THEN "error_message" ELSE "string_of_value"]

\* clearTimeout(timeout)
clearTimeout(timer) == IF timer = "armed" THEN "cleared" ELSE timer

\* the call without its try/catch: what generateText throws leaves the function
QueryUncaught(q, thrown) ==
    [q EXCEPT !.pc = "rejected"]

\* generateText rejected with `thrown`: the catch block runs and returns
QueryCaught(q, thrown) ==
    [q EXCEPT !.pc = "returned", !.timer = clearTimeout(q.timer),
              !.result = CatchResult(thrown)]

\* generateText fulfilled with a text of length len
QueryFulfilled(q, len) ==
    [q EXCEPT !.pc = "returned", !.timer = clearTimeout(q.timer),
              !.result = [status |-> "success", hasResponse |-> TRUE, len |-> len,
                          error |-> "none"]]

\* the timer started before createModel is looked at
QueryEnteredTimerFirst(id) ==
    IF createModel(id) = Null
    THEN [pc |-> "returned", model |-> id, timer |-> "armed", calls |-> 0,
          aborted |-> FALSE,
          result |-> [status |-> "error", hasResponse |-> FALSE, len |-> 0,
                      error |-> "could_not_create_model_instance"]]
    ELSE [pc |-> "awaiting", model |-> id, timer |-> "armed", calls |-> 1,
          aborted |-> FALSE, result |-> NoResult]

\* querySingleModel from its entry to `await generateText(options)`
QueryEntered(id) ==
    IF createModel(id) = Null
    THEN [pc |-> "returned", model |-> id, timer |-> "none", calls |-> 0,
          aborted |-> FALSE,
          result |-> [status |-> "error", hasResponse |-> FALSE, len |-> 0,
                      error |-> "could_not_create_model_instance"]]
    ELSE [pc |-> "awaiting", model |-> id, timer |-> "armed", calls |-> 1,
          aborted |-> FALSE, result |-> NoResult]

\* the SingleQueryResult as the pipelines see it
OutcomeOf(result) == [status |-> result.status, len |-> result.len]

\* ---- numeric settings (commander options, the cascade of runQuery) ---------------
\* A JavaScript number x of this part is the integer Tenths*x; a string that
\* holds a decimal numeral is a record of its own kind, so that String,
\* parseInt and parseFloat are conversions.
UndefinedString == [defined |-> FALSE, numeral |-> 0]

Str(x) == [defined |-> TRUE, numeral |-> x]

UndefinedNumber == [defined |-> FALSE, tenths |-> 0]

Num(x) == [defined |-> TRUE, tenths |-> x]

String(n) == Str(n.tenths)

\* parseInt(s, 10): the integer part of the numeral
parseInt(s) == (s.numeral \div Tenths) * Tenths

parseFloat(s) == s.numeral

\* a ?? b
Coalesce(a, b) == IF a.defined THEN a ELSE b

\* .option(flags, description, defaultValue): the value commander hands to the
\* action when the command line has, or has not, the flag
CommanderOption(passed, defaultValue) == IF passed.defined THEN passed ELSE defaultValue

\* the `options` argument of runQuery for a command line
CommanderOptions(argv) ==
    [numSamples |-> CommanderOption(argv.numSamples, Str(CliDefaultNumSamples * Tenths)),
     temperature |-> CommanderOption(argv.temperature, Str(CliDefaultTemperature)),
     timeout |-> CommanderOption(argv.timeout, Str(CliDefaultTimeout * Tenths))]

NoPreset ==
    [defined |-> FALSE, num_samples |-> UndefinedNumber, temperature |-> UndefinedNumber,
     timeout_seconds |-> UndefinedNumber]

\* presetConfig?.field
PresetField(presetConfig, field) ==
    IF presetConfig.defined THEN presetConfig[field] ELSE UndefinedNumber

\* numSamples, temperature, timeoutSeconds of runQuery, in tenths
ResolveSettings(opts, presetConfig) ==
    [numSamples |->
        parseInt(Coalesce(opts.numSamples,
                          String(Coalesce(PresetField(presetConfig, "num_samples"),
                                          Num(DefaultNumSamples * Tenths))))),
     temperature |->
        parseFloat(Coalesce(opts.temperature,
                            String(Coalesce(PresetField(presetConfig, "temperature"),
                                            Num(DefaultTemperature))))),
     timeoutSeconds |->
        parseInt(Coalesce(opts.timeout,
                          String(Coalesce(PresetField(presetConfig, "timeout_seconds"),
                                          Num(DefaultTimeoutSeconds * Tenths)))))]

\* command lines: each of -n, -T, -t absent or given with a well-formed value
Argvs ==
    [numSamples : {UndefinedString} \cup { Str(k * Tenths) : k \in 1 .. MaxSamples },
     temperature : {UndefinedString} \cup { Str(t) : t \in 0 .. MaxTemp },
     timeout : {UndefinedString} \cup { Str(k * Tenths) : k \in 1 .. 2 }]

\* config.presets[presetName]: absent, or an entry that sets each field or not
PresetConfigs ==
    {NoPreset} \cup
    [defined : {TRUE},
     num_samples : {UndefinedNumber} \cup { Num(k * Tenths) : k \in 1 .. MaxSamples },
     temperature : {UndefinedNumber} \cup { Num(t) : t \in 0 .. MaxTemp },
     timeout_seconds : {UndefinedNumber} \cup { Num(k * Tenths) : k \in 1 .. 2 }]

\* ---- per-sample temperature (getTemperatureForSample) ----------------------------
\* the exact value of a float expression, as a fraction of tenths
Frac(n, d) == [num |-> n, den |-> d]

FracAdd(x, y) == Frac(x.num * y.den + y.num * x.den, x.den * y.den)

FracMul(x, y) == Frac(x.num * y.num, x.den * y.den)

NoRange == [defined |-> FALSE, min |-> 0, max |-> 0]

\* presetConfig?.temperature_range ?? null, with min <= max
TemperatureRanges ==
    {NoRange} \cup
    { r \in [defined : {TRUE}, min : 0 .. MaxTemp, max : 0 .. MaxTemp] : r.min <= r.max }

\* the interpolation with sampleIndex / numSamples
getTemperatureOverN(temperatureRange, temperature, numSamples, sampleIndex) ==
    IF temperatureRange.defined
    THEN IF numSamples <= 1
         THEN Frac(temperatureRange.min + temperatureRange.max, 2)
         ELSE FracAdd(Frac(temperatureRange.min, 1),
                      FracMul(Frac(temperatureRange.max - temperatureRange.min, 1),
                              Frac(sampleIndex, numSamples)))
    ELSE Frac(temperature, 1)

getTemperatureForSample(temperatureRange, temperature, numSamples, sampleIndex) ==
    IF temperatureRange.defined
    THEN IF numSamples <= 1
         THEN Frac(temperatureRange.min + temperatureRange.max, 2)
         ELSE FracAdd(Frac(temperatureRange.min, 1),
                      FracMul(Frac(temperatureRange.max - temperatureRange.min, 1),
                              Frac(sampleIndex, numSamples - 1)))
    ELSE Frac(temperature, 1)

\* the temperatures of the numSamples queries of one pipeline, by ordinal
BatchTemperatures(temperatureRange, temperature, numSamples) ==
    [k \in 1 .. numSamples |->
        getTemperatureForSample(temperatureRange, temperature, numSamples, k - 1)]

NoProbe == [fn |-> "none", input |-> << >>, output |-> << >>]

\* ---- initial state: runQuery is entered with some options --------------------
\* The --models lists tried: k distinct ids among the first k eligible models,
\* the deep-research model and an unknown id, in every order (eligible models
\* differ only in name, so which k of them are named does not matter; their
\* order does).
ModelLists ==
    UNION { { q \in [1 .. k -> (1 .. k) \cup {DeepResearchModel, UnknownModel}] :
                \A a, b \in 1 .. k : a # b => q[a] # q[b] } : k \in 1 .. MaxModels }

\* options.models is << >> when --models was not given; options.preset is ""
\* when --preset was not given
OptionSets ==
    { [models |-> ms, preset |-> "", numSamples |-> n, brainstorm |-> b,
       synthesise |-> sy, liveFile |-> lf] :
        ms \in ModelLists, n \in 1 .. MaxSamples,
        b \in BOOLEAN, sy \in BOOLEAN, lf \in BOOLEAN }
    \cup
    { [models |-> << >>, preset |-> ps, numSamples |-> n, brainstorm |-> b,
       synthesise |-> sy, liveFile |-> lf] :
        ps \in {"", "deep", "nosuch"}, n \in 1 .. MaxSamples,
        b \in BOOLEAN, sy \in BOOLEAN, lf \in BOOLEAN }

presetName(opts) ==
    IF opts.models # << >> THEN "" ELSE IF opts.preset # "" THEN opts.preset ELSE "quick"

\* the list the run would use, before validation
RequestedModels(opts) ==
    IF opts.models # << >> THEN opts.models
    ELSE IF presetName(opts) \in PresetNames THEN getPresetModels(presetName(opts))
    ELSE << >>

NoSynth ==
    [state |-> "none", input |-> << >>, result |-> Undefined, warned |-> FALSE,
     requests |-> 0]

NoArtifact == [written |-> FALSE, models |-> << >>, synthesisDoc |-> Undefined]

NoSummary == [lines |-> << >>, failed |-> << >>, complete |-> FALSE]

NoLiveDoc == [created |-> FALSE, sections |-> << >>, synthesis |-> Undefined]

Init ==
    /\ options \in OptionSets
    /\ Len(RequestedModels(options)) * options.numSamples <= MaxCalls
    /\ modelNames = << >>
    /\ phase = "resolving"
    /\ exitCode = -1
    /\ timersFired = 0
    /\ samplePromises = << >>
    /\ dispatched = << >>
    /\ pc = << >>
    /\ samples = << >>
    /\ judge = << >>
    /\ allModelResults = << >>
    /\ tracker = << >>
    /\ liveDoc = NoLiveDoc
    /\ synth = NoSynth
    /\ artifact = NoArtifact
    /\ summary = NoSummary
    /\ query = IdleQuery
    /\ probe = NoProbe
    /\ liveFile = NoLiveFile

\* the validation skipped: no id is reported
NoInvalidModels(names) == << >>

\* modelNames.filter((m) => !eligible.has(m))
InvalidModels(names) == SelectSeq(names, LAMBDA m : m \notin getEligibleModels)

\* ---- runQuery: configuration resolution and dispatch --------------------------
\* process.exit(1), or getPresetModels throwing out of runQuery
ConfigError ==
    /\ phase' = "config_error"
    /\ exitCode' = 1
    /\ UNCHANGED << modelNames, timersFired, samplePromises, dispatched, pc, samples,
                    judge, allModelResults, tracker, liveDoc, synth, artifact, summary >>

\* createLiveFile, new BonProgressTracker, and the synchronous part of
\* modelNames.map(async ...): every pipeline creates its N promises and timers
Dispatch(names) ==
    /\ modelNames' = names
    /\ liveDoc' = IF options.liveFile
                  THEN [created |-> TRUE,
                        sections |-> [p \in 1 .. Len(names) |-> PlaceholderSection],
                        synthesis |-> Undefined]
                  ELSE liveDoc
    /\ tracker' = NewTracker(names, options.numSamples)
    /\ samplePromises' = [p \in 1 .. Len(names) |-> NewSamplePromises(options.numSamples)]
    /\ dispatched' = [p \in 1 .. Len(names) |->
                        [k \in 1 .. Len(NewSamplePromises(options.numSamples)) |-> 0]]
    /\ pc' = [p \in 1 .. Len(names) |-> "sampling"]
    /\ samples' = [p \in 1 .. Len(names) |-> << >>]
    /\ judge' = [p \in 1 .. Len(names) |->
                    [primary |-> 0, secondary |-> 0, primaryOutcome |-> "none"]]
    /\ phase' = "awaiting"
    /\ UNCHANGED << exitCode, timersFired, allModelResults, synth, artifact, summary >>

Resolve ==
    /\ phase = "resolving"
    /\ Alive
    /\ IF options.models # << >>
       THEN IF Len(InvalidModels(options.models)) > 0
            THEN ConfigError
            ELSE Dispatch(options.models)
       ELSE IF presetName(options) \notin PresetNames
            THEN ConfigError
            ELSE IF Len(getPresetModels(presetName(options))) = 0
                 THEN ConfigError
                 ELSE Dispatch(getPresetModels(presetName(options)))
    /\ UNCHANGED << options, query, probe, liveFile >>

\* sampling one after the other: the query of ordinal i starts when the
\* queries of ordinal i - 1 have come back
PreviousSampleBack(i) ==
    /\ timersFired = i
    /\ i > 0 => \A p \in 1 .. Len(samplePromises) :
                   i - 1 < Len(samplePromises[p]) => At(samplePromises[p], i - 1).state = "settled"

\* setTimeout(..., i * 100): the timers expire in the order of their delays,
\* whatever the earlier queries are doing
StaggerElapsed(i) == timersFired = i

\* The stagger timers of ordinal i (i * 100 ms after dispatch).  All pipelines
\* created theirs in the same synchronous block with the same delay, so the
\* timers of one ordinal expire together and run back to back; each callback
\* runs querySingleModel up to its generateText call.
TimersFire(i) ==
    /\ phase = "awaiting"
    /\ Alive
    /\ StaggerElapsed(i)
    /\ \E p \in Pipelines : i < Len(samplePromises[p])
    /\ timersFired' = i + 1
    /\ samplePromises' =
         [p \in Pipelines |->
            IF i < Len(samplePromises[p])
            THEN [samplePromises[p] EXCEPT ![i + 1].state = "inflight"]
            ELSE samplePromises[p]]
    /\ dispatched' =
         [p \in Pipelines |->
            IF i < Len(samplePromises[p])
            THEN [dispatched[p] EXCEPT ![i + 1] = @ + 1]
            ELSE dispatched[p]]
    /\ UNCHANGED << options, modelNames, phase, exitCode, pc, samples, judge,
                    allModelResults, tracker, liveDoc, synth, artifact, summary >>
    /\ UNCHANGED << query, probe, liveFile >>

\* ---- one model's pipeline ------------------------------------------------------
\* From the comparison result to the end of the modelPromises callback:
\* setComparisonDone, allModelResults.push, the live-file section.  A TypeError
\* in the section rejects the pipeline, hence Promise.all and runQuery; nothing
\* handles that rejection, so the process ends with status 1.
FinishPipeline(p, smp, cmp, t) ==
    LET name == modelNames[p]
        mr == BonModelResult(name, smp, cmp)
    IN
    /\ tracker' = setComparisonDone(t, name)
    /\ allModelResults' = Append(allModelResults, mr)
    /\ IF options.liveFile /\ BestSampleThrows(mr)
       THEN /\ pc' = [pc EXCEPT ![p] = "threw"]
            /\ phase' = "crashed"
            /\ exitCode' = 1
            /\ UNCHANGED liveDoc
       ELSE /\ pc' = [pc EXCEPT ![p] = "done"]
            /\ liveDoc' = IF options.liveFile
                          THEN [liveDoc EXCEPT !.sections[p] = ResultSection(mr)]
                          ELSE liveDoc
            /\ UNCHANGED << phase, exitCode >>

\* The pipeline after `await Promise.all(samplePromises)`, up to its next request
AfterSampling(p, results, t) ==
    LET name == modelNames[p]
        smp == CollectSamples(results)
    IN
    /\ samples' = [samples EXCEPT ![p] = smp]
    /\ IF Len(smp) = 0
       THEN /\ tracker' = setComparisonDone(t, name)
            /\ liveDoc' = IF options.liveFile
                          THEN [liveDoc EXCEPT !.sections[p] = ErrorSection]
                          ELSE liveDoc
            /\ pc' = [pc EXCEPT ![p] = "done"]
            /\ UNCHANGED << judge, allModelResults, phase, exitCode >>
       ELSE IF SingleSample(smp)
            THEN /\ FinishPipeline(p, smp,
                                   IF options.brainstorm THEN BrainstormSingle(smp)
                                   ELSE CompareSingle,
                                   setComparing(t, name))
                 /\ UNCHANGED judge
            ELSE /\ tracker' = setComparing(t, name)
                 /\ judge' = [judge EXCEPT ![p].primary = @ + 1]
                 /\ pc' = [pc EXCEPT ![p] = "judge_primary"]
                 /\ UNCHANGED << allModelResults, liveDoc, phase, exitCode >>

\* The provider call of sample i of pipeline p comes back (or is aborted by its
\* timer): querySingleModel returns, the timer callback counts it and resolves
\* the promise; when it was the last one the pipeline continues.
SampleResolves(p, i, outcome) ==
    /\ phase = "awaiting"
    /\ Alive
    /\ pc[p] = "sampling"
    /\ i < Len(samplePromises[p])
    /\ At(samplePromises[p], i).state = "inflight"
    /\ LET name == modelNames[p]
           results == SettleOne(samplePromises[p], i, QueryResult(name, i, outcome))
           t == sampleComplete(tracker, name, outcome.status = "success")
       IN /\ samplePromises' = [samplePromises EXCEPT ![p] = results]
          /\ IF AllSettled(results)
             THEN AfterSampling(p, results, t)
             ELSE /\ tracker' = t
                  /\ UNCHANGED << pc, samples, judge, allModelResults, liveDoc,
                                  phase, exitCode >>
    /\ UNCHANGED << options, modelNames, timersFired, dispatched, synth, artifact, summary >>
    /\ UNCHANGED << query, probe, liveFile >>

\* The request to the primary judge model comes back
PrimaryResolves(p, reply) ==
    /\ phase = "awaiting"
    /\ Alive
    /\ pc[p] = "judge_primary"
    /\ reply \in (IF options.brainstorm THEN MergeReplies ELSE JudgeReplies)
    /\ IF NoRaw(reply)
       THEN /\ judge' = [judge EXCEPT ![p].secondary = @ + 1,
                                      ![p].primaryOutcome = PrimaryOutcome(reply)]
            /\ pc' = [pc EXCEPT ![p] = "judge_secondary"]
            /\ UNCHANGED << allModelResults, tracker, liveDoc, phase, exitCode >>
       ELSE /\ FinishPipeline(p, samples[p],
                              IF options.brainstorm
                              THEN BrainstormFromRaw(modelNames[p], samples[p], reply)
                              ELSE CompareFromRaw(samples[p], reply),
                              tracker)
            /\ judge' = [judge EXCEPT ![p].primaryOutcome = PrimaryOutcome(reply)]
    /\ UNCHANGED << options, modelNames, timersFired, samplePromises, dispatched,
                    samples, synth, artifact, summary >>
    /\ UNCHANGED << query, probe, liveFile >>

\* The request to the secondary judge model comes back
SecondaryResolves(p, reply) ==
    /\ phase = "awaiting"
    /\ Alive
    /\ pc[p] = "judge_secondary"
    /\ reply \in (IF options.brainstorm THEN MergeReplies ELSE JudgeReplies)
    /\ FinishPipeline(p, samples[p],
                      IF options.brainstorm
                      THEN BrainstormFromRaw(modelNames[p], samples[p], reply)
                      ELSE CompareFromRaw(samples[p], reply),
                      tracker)
    /\ UNCHANGED << options, modelNames, timersFired, samplePromises, dispatched,
                    samples, judge, synth, artifact, summary >>
    /\ UNCHANGED << query, probe, liveFile >>

\* ---- runQuery after the pipelines ----------------------------------------------
\* Promise.race in place of Promise.all: the first pipeline to return
AnyPipelineResolved == \E p \in Pipelines : pc[p] = "done"

\* `await Promise.all(modelPromises)` resolves once every pipeline has returned
AllPipelinesResolved == \A p \in Pipelines : pc[p] = "done"

\* the summary loop stops at the first result whose best sample is undefined
RECURSIVE SummaryLines(_)
SummaryLines(results) ==
    IF results = << >> \/ BestSampleThrows(Head(results)) THEN << >>
    ELSE << Head(results).modelName >> \o SummaryLines(Tail(results))

SummaryThrows(results) == \E k \in 1 .. Len(results) : BestSampleThrows(results[k])

\* modelNames.filter((m) => !allModelResults.find((mr) => mr.modelName === m))
FailedModels(results) ==
    SelectSeq(modelNames,
              LAMBDA m : ~(\E k \in 1 .. Len(results) : results[k].modelName = m))

\* saveResults, "Save raw JSON": the `models` array of responses.json
ResponsesJson(results) ==
    [k \in 1 .. Len(results) |->
        [model |-> results[k].modelName,
         bestIndex |-> results[k].bestIndex,
         samples |-> [j \in 1 .. Len(results[k].samples) |-> results[k].samples[j].index]]]

NoFileText == [origin |-> "report", model |-> 0, ordinal |-> 0, len |-> 1]

\* saveResults, "Save per-model files": the files written into per-model/<modelName>
PerModelFiles(mr) ==
    { [file |-> "sample", ordinal |-> mr.samples[j].index, content |-> mr.samples[j].response] :
        j \in 1 .. Len(mr.samples) }
    \cup (IF Truthy(mr.brainstormSummary)
          THEN { [file |-> "merged-ideas", ordinal |-> 0, content |-> mr.brainstormSummary] }
          ELSE IF HasIndex(mr.samples, mr.bestIndex)
               THEN { [file |-> "best-response", ordinal |-> 0,
                       content |-> Elem(mr.samples, mr.bestIndex).response] }
               ELSE { })
    \cup { [file |-> "comparison", ordinal |-> 0, content |-> NoFileText] }

\* the directories under per-model/
PerModelDirs(results) == { results[k].modelName : k \in 1 .. Len(results) }

\* saveResults(...), then "Print summary" and notifyBonComplete.  runQuery
\* returning lets the process end with status 0; a TypeError in the summary
\* loop rejects runQuery, which nothing handles: status 1.
SaveAndSummarise(results, synthesis) ==
    /\ artifact' = [written |-> TRUE, models |-> results,
                    synthesisDoc |-> IF Truthy(synthesis) THEN synthesis ELSE Undefined]
    /\ IF SummaryThrows(results)
       THEN /\ summary' = [lines |-> SummaryLines(results), failed |-> << >>,
                           complete |-> FALSE]
            /\ phase' = "crashed"
            /\ exitCode' = 1
       ELSE /\ summary' = [lines |-> SummaryLines(results),
                           failed |-> FailedModels(results), complete |-> TRUE]
            /\ phase' = "done"
            /\ exitCode' = 0

InsertSynthesis(doc, synthesis) ==
    IF options.liveFile THEN [doc EXCEPT !.synthesis = synthesis] ELSE doc

\* runQuery from `await Promise.all(modelPromises)` to its next await, or its end
PipelinesJoined ==
    /\ phase = "awaiting"
    /\ Alive
    /\ AllPipelinesResolved
    /\ LET sorted == SortByModelOrder(allModelResults, modelNames)
           successful == SuccessfulResponses(BestResponses(sorted))
       IN /\ allModelResults' = sorted
          /\ IF SynthesisGuard(sorted)
             THEN IF Len(successful) = 0
                  THEN /\ synth' = [state |-> "sentinel", input |-> BestResponses(sorted),
                                    result |-> SentinelText, warned |-> FALSE,
                                    requests |-> 0]
                       /\ liveDoc' = InsertSynthesis(liveDoc, SentinelText)
                       /\ SaveAndSummarise(sorted, SentinelText)
                  ELSE /\ synth' = [state |-> "requested", input |-> successful,
                                    result |-> Undefined, warned |-> FALSE,
                                    requests |-> 1]
                       /\ phase' = "synthesising"
                       /\ UNCHANGED << liveDoc, artifact, summary, exitCode >>
             ELSE /\ synth' = [synth EXCEPT !.state = "skipped"]
                  /\ SaveAndSummarise(sorted, Undefined)
                  /\ UNCHANGED liveDoc
    /\ UNCHANGED << options, modelNames, timersFired, samplePromises, dispatched, pc,
                    samples, judge, tracker >>
    /\ UNCHANGED << query, probe, liveFile >>

\* the synthesis request returns a text
SynthesisFulfilled(text) ==
    /\ synth' = [synth EXCEPT !.state = "ok", !.result = text]
    /\ liveDoc' = InsertSynthesis(liveDoc, text)
    /\ SaveAndSummarise(allModelResults, text)

\* the synthesis request throws and nothing catches it
SynthesisRejectedUncaught ==
    /\ synth' = [synth EXCEPT !.state = "failed"]
    /\ phase' = "crashed"
    /\ exitCode' = 1
    /\ UNCHANGED << liveDoc, artifact, summary >>

\* the synthesis request throws: the catch block warns and notifies
SynthesisRejected ==
    /\ synth' = [synth EXCEPT !.state = "failed", !.warned = TRUE]
    /\ UNCHANGED liveDoc
    /\ SaveAndSummarise(allModelResults, Undefined)

SynthesisResolves(reply) ==
    /\ phase = "synthesising"
    /\ Alive
    /\ IF reply = "throw"
       THEN SynthesisRejected
       ELSE SynthesisFulfilled(SynthesisText(IF reply = "empty" THEN 0 ELSE 1))
    /\ UNCHANGED << options, modelNames, timersFired, samplePromises, dispatched, pc,
                    samples, judge, allModelResults, tracker >>
    /\ UNCHANGED << query, probe, liveFile >>

Next ==
    \/ Resolve
    \/ \E i \in 0 .. MaxSamples : TimersFire(i)
    \/ \E p \in Pipelines, i \in 0 .. MaxSamples, o \in QueryOutcomes : SampleResolves(p, i, o)
    \/ \E p \in Pipelines, r \in JudgeReplies \cup MergeReplies : PrimaryResolves(p, r)
    \/ \E p \in Pipelines, r \in JudgeReplies \cup MergeReplies : SecondaryResolves(p, r)
    \/ PipelinesJoined
    \/ \E r \in SynthesisReplies : SynthesisResolves(r)

Spec == Init /\ [][Next]_vars

\* ---- querySingleModel and the pure functions, taken on their own -------------------
\* One thing is exercised per behaviour: either one call of querySingleModel is
\* followed to its return, or one function is applied once to one input.
\* querySingleModel is called for model `id` and runs to its await (or returns)
QueryCalled(id) ==
    /\ query.pc = "idle"
    /\ probe = NoProbe
    /\ query' = QueryEntered(id)
    /\ UNCHANGED << run, probe, liveFile >>

\* the provider call comes back with a text
ProviderReturns(len) ==
    /\ query.pc = "awaiting"
    /\ ~query.aborted
    /\ query' = QueryFulfilled(query, len)
    /\ UNCHANGED << run, probe, liveFile >>

\* the provider call throws on its own account
ProviderThrows(thrown) ==
    /\ query.pc = "awaiting"
    /\ ~query.aborted
    /\ query' = QueryCaught(query, thrown)
    /\ UNCHANGED << run, probe, liveFile >>

\* setTimeout(() => controller.abort(), timeoutMs) expires
TimeoutFires ==
    /\ query.pc = "awaiting"
    /\ query.timer = "armed"
    /\ query' = [query EXCEPT !.timer = "fired", !.aborted = TRUE]
    /\ UNCHANGED << run, probe, liveFile >>

\* the aborted generateText rejects with the AbortError
AbortSurfaces ==
    /\ query.pc = "awaiting"
    /\ query.aborted
    /\ query' = QueryCaught(query, AbortError)
    /\ UNCHANGED << run, probe, liveFile >>

\* the cascade of runQuery applied to a command line and a preset entry
ApplySettings(argv, presetConfig) ==
    /\ probe = NoProbe
    /\ query = IdleQuery
    /\ probe' = [fn |-> "settings",
                 input |-> [argv |-> argv, presetConfig |-> presetConfig],
                 output |-> ResolveSettings(CommanderOptions(argv), presetConfig)]
    /\ UNCHANGED << run, query, liveFile >>

\* the temperatures one pipeline passes to its numSamples queries
ApplyTemperature(temperatureRange, temperature, numSamples) ==
    /\ probe = NoProbe
    /\ query = IdleQuery
    /\ probe' = [fn |-> "temperature",
                 input |-> [temperatureRange |-> temperatureRange,
                            temperature |-> temperature, numSamples |-> numSamples],
                 output |-> BatchTemperatures(temperatureRange, temperature, numSamples)]
    /\ UNCHANGED << run, query, liveFile >>

\* the settled batches of MaxSamples + 1 queries of model 1
SettledBatches ==
    { [k \in 1 .. (MaxSamples + 1) |-> QueryResult(1, k - 1, outcomes[k])] :
        outcomes \in [1 .. (MaxSamples + 1) -> QueryOutcomes] }

\* the sample lists that reach the judge: two or more retained samples
JudgedSampleLists ==
    { smp \in { CollectSamples(batch) : batch \in SettledBatches } : Len(smp) >= 2 }

\* compareModelSamples from "Parse response" on, with `raw` the reply in hand
ApplyCompare(smp, raw) ==
    /\ probe = NoProbe
    /\ query = IdleQuery
    /\ probe' = [fn |-> "compare", input |-> [samples |-> smp, raw |-> raw],
                 output |-> CompareFromRaw(smp, raw)]
    /\ UNCHANGED << run, query, liveFile >>

\* brainstormModelSamples from `if (raw)` on, with `raw` the reply in hand
ApplyBrainstorm(smp, raw) ==
    /\ probe = NoProbe
    /\ query = IdleQuery
    /\ probe' = [fn |-> "brainstorm", input |-> [samples |-> smp, raw |-> raw],
                 output |-> BrainstormFromRaw(1, smp, raw)]
    /\ UNCHANGED << run, query, liveFile >>

\* createModel applied to one entry of config.models, or to a missing one
ApplyCreateModel(mc) ==
    /\ probe = NoProbe
    /\ query = IdleQuery
    /\ probe' = [fn |-> "createModel", input |-> mc, output |-> [model |-> createModelFor(mc)]]
    /\ UNCHANGED << run, query, liveFile >>

\* getEligibleModels applied to one configuration
ApplyEligibleModels(models) ==
    /\ probe = NoProbe
    /\ query = IdleQuery
    /\ probe' = [fn |-> "getEligibleModels", input |-> [models |-> models],
                 output |-> [names |-> EligibleNames(models)]]
    /\ UNCHANGED << run, query, liveFile >>

\* getPresetModels applied to one preset list under one configuration
ApplyPresetModels(presetList, models) ==
    /\ probe = NoProbe
    /\ query = IdleQuery
    /\ probe' = [fn |-> "getPresetModels", input |-> [preset |-> presetList, models |-> models],
                 output |-> [names |-> PresetModels(presetList, models)]]
    /\ UNCHANGED << run, query, liveFile >>

UnitInit ==
    /\ Init
    /\ options.models = << 1 >>
    /\ options.numSamples = 1
    /\ ~options.brainstorm
    /\ ~options.synthesise
    /\ ~options.liveFile

UnitNext ==
    \/ \E id \in ConfigModelIds \cup {UnknownModel} : QueryCalled(id)
    \/ \E len \in 0 .. MaxLen : ProviderReturns(len)
    \/ \E thrown \in ThrownValues : ProviderThrows(thrown)
    \/ TimeoutFires
    \/ AbortSurfaces
    \/ \E argv \in Argvs, presetConfig \in PresetConfigs : ApplySettings(argv, presetConfig)
    \/ \E r \in TemperatureRanges, t \in 0 .. MaxTemp, n \in 1 .. MaxRangeSamples :
          ApplyTemperature(r, t, n)
    \/ \E smp \in JudgedSampleLists, raw \in JudgeReplies : ApplyCompare(smp, raw)
    \/ \E smp \in JudgedSampleLists, raw \in MergeReplies : ApplyBrainstorm(smp, raw)
    \/ \E mc \in ModelConfigs \cup {NoEntry} : ApplyCreateModel(mc)
    \/ \E models \in ConfigsOver(ModelConfigs) : ApplyEligibleModels(models)
    \/ \E models \in ConfigsOver(KindsOfEntry) : \E presetList \in PresetListsFor(models) :
          ApplyPresetModels(presetList, models)

UnitSpec == UnitInit /\ [][UnitNext]_vars

\* ---- the live file of one run, followed on its own -------------------------------
\* createLiveFile for n selected models
LiveFileCreated(n) ==
    /\ liveFile = NoLiveFile
    /\ probe = NoProbe
    /\ query = IdleQuery
    /\ LET names == [k \in 1 .. n |-> k] IN
       liveFile' = [NoLiveFile EXCEPT !.names = names,
                                      !.content = createLiveFile(names),
                                      !.written = [k \in 1 .. n |-> << >>]]
    /\ UNCHANGED << run, query, probe >>

\* the one updateModelSection call of pipeline k, before the synthesis
SectionUpdated(k, sectionContent) ==
    /\ liveFile # NoLiveFile
    /\ k \in 1 .. Len(liveFile.names)
    /\ liveFile.written[k] = << >>
    /\ liveFile.insertions = 0
    /\ liveFile' = [liveFile EXCEPT
                        !.content = updateModelSection(@, liveFile.names[k], sectionContent),
                        !.written[k] = sectionContent]
    /\ UNCHANGED << run, query, probe >>

\* insertSynthesisInLiveFile, after every pipeline returned and one had a result
SynthesisInserted ==
    /\ liveFile # NoLiveFile
    /\ \A k \in 1 .. Len(liveFile.names) : liveFile.written[k] # << >>
    /\ \E k \in 1 .. Len(liveFile.names) :
          liveFile.written[k] # ErrorSectionText(liveFile.names[k])
    /\ liveFile.insertions < MaxInsertions
    /\ liveFile' = [liveFile EXCEPT
                        !.content = insertSynthesisInLiveFile(@, SynthesisBody),
                        !.beforeSynthesis = IF liveFile.insertions = 0
                                            THEN liveFile.content ELSE @,
                        !.insertions = @ + 1]
    /\ UNCHANGED << run, query, probe >>

LiveInit == UnitInit

LiveNext ==
    \/ \E n \in 1 .. MaxModels : LiveFileCreated(n)
    \/ \E k \in 1 .. MaxModels :
          \E response \in ResponseTexts(k, (1 .. MaxModels) \cup {SynthesisTitle}) :
              SectionUpdated(k, ResultSectionText(k, response))
    \/ \E k \in 1 .. MaxModels : SectionUpdated(k, ErrorSectionText(k))
    \/ SynthesisInserted

LiveSpec == LiveInit /\ [][LiveNext]_vars

\* ---- vocabulary of the properties ------------------------------------------------
ConfigPassed == phase \notin {"resolving", "config_error"}

Ended == exitCode # -1

ResultNames(results) == [k \in 1 .. Len(results) |-> results[k].modelName]

\* the sub-list of modelNames made of the models that occur in `names`
RestrictedOrder(names) == SelectSeq(modelNames, LAMBDA m : m \in Range(names))

SampleFailed(r) == r.state = "settled" /\ r.status \in {"error", "timeout"}

AllSamplesFailed(p) ==
    \A k \in 1 .. Len(samplePromises[p]) : SampleFailed(samplePromises[p][k])

SynthRequested == synth.state \in {"requested", "ok", "failed"}

SynthSettled == synth.state \in {"ok", "failed", "skipped", "sentinel"}

RECURSIVE SumSeq(_)
SumSeq(q) == IF q = << >> THEN 0 ELSE Head(q) + SumSeq(Tail(q))

TotalDispatched == SumSeq([p \in Pipelines |-> SumSeq(dispatched[p])])

\* ---- C1 ---------------------------------------------------------------------------
\* C1: a run that passed configuration resolution never stops anywhere but in
\* Done with the artifact tree written: in every reachable state either some
\* step is still possible or the run is Done and has persisted.
C1_EveryRunEndsDone ==
    ConfigPassed => (ENABLED Next) \/ (phase = "done" /\ artifact.written)

\* ---- C2 ---------------------------------------------------------------------------
\* C2: every (pipeline, ordinal) pair with ordinal in 0..N-1 is dispatched at
\* most once, no other ordinal exists, a pipeline that is past sampling has had
\* each of its N queries dispatched exactly once, and when the process ends the
\* number of dispatched queries is |M| x N.
C2_DispatchedExactlyOnce ==
    ConfigPassed =>
        /\ \A p \in Pipelines :
              /\ DOMAIN dispatched[p] = 1 .. options.numSamples
              /\ \A k \in DOMAIN dispatched[p] : dispatched[p][k] <= 1
              /\ pc[p] # "sampling" => \A k \in DOMAIN dispatched[p] : dispatched[p][k] = 1
        /\ Ended => TotalDispatched = Len(modelNames) * options.numSamples

C2_Witness ==
    /\ Ended
    /\ ConfigPassed
    /\ NumPipelines >= 2
    /\ options.numSamples >= 2
    /\ TotalDispatched = NumPipelines * options.numSamples

\* ---- C3 ---------------------------------------------------------------------------
\* C3: when the process has ended, a model whose N samples all failed is absent
\* from the persisted model results and from the synthesis input, and is
\* listed in the failure summary.
C3_FailedModelDroppedAndListed ==
    (Ended /\ ConfigPassed) =>
        \A p \in Pipelines :
            AllSamplesFailed(p) =>
                /\ modelNames[p] \notin Range(ResultNames(allModelResults))
                /\ modelNames[p] \notin Range(ResultNames(artifact.models))
                /\ modelNames[p] \notin Range(ResultNames(synth.input))
                /\ modelNames[p] \in Range(summary.failed)

\* ---- C4 ---------------------------------------------------------------------------
\* C4: a pipeline that retained at least one successful sample and has left its
\* judge step has completed without raising an error, and its model is in the
\* model results with a non-empty representative output which, in selection
\* mode, is the text of one of its retained samples.
C4_JudgeNeverFailsTheModel ==
    \A p \in Pipelines :
        (Len(samples[p]) >= 1 /\ pc[p] \notin {"sampling", "judge_primary", "judge_secondary"}) =>
            /\ pc[p] = "done"
            /\ \E k \in 1 .. Len(allModelResults) :
                  LET mr == allModelResults[k] IN
                  /\ mr.modelName = modelNames[p]
                  /\ Truthy(RepresentativeOutput(mr))
                  /\ ~options.brainstorm =>
                       \E j \in 1 .. Len(samples[p]) :
                           RepresentativeOutput(mr) = samples[p][j].response

\* ---- C5 ---------------------------------------------------------------------------
\* C5: once the pipelines have been joined, the model results, the synthesis
\* input, the persisted summary record and the printed summary all list their
\* models in model-selection order.
C5_ResultsInSelectionOrder ==
    synth.state # "none" =>
        /\ ResultNames(allModelResults) = RestrictedOrder(ResultNames(allModelResults))
        /\ ResultNames(synth.input) = RestrictedOrder(ResultNames(synth.input))
        /\ artifact.written =>
             ResultNames(artifact.models) = RestrictedOrder(ResultNames(allModelResults))
        /\ summary.complete => summary.lines = RestrictedOrder(ResultNames(allModelResults))

\* a later model of the selection finished first and two models are in the result
C5_Witness ==
    /\ phase = "done"
    /\ Len(allModelResults) >= 2
    /\ modelNames[1] > modelNames[2]
    /\ Len(synth.input) >= 2

\* ---- C6 ---------------------------------------------------------------------------
\* C6: the settled result at position i of a batch is the outcome of the i-th
\* dispatched query, and every retained sample carries the ordinal of the
\* query that produced its text.
C6_OrdinalStability ==
    ConfigPassed =>
        \A p \in Pipelines :
            /\ \A k \in 1 .. Len(samplePromises[p]) :
                  samplePromises[p][k].state = "settled" =>
                      /\ samplePromises[p][k].call = k - 1
                      /\ Truthy(samplePromises[p][k].response) =>
                           samplePromises[p][k].response.ordinal = k - 1
            /\ \A j \in 1 .. Len(samples[p]) :
                  /\ samples[p][j].index \in 0 .. (options.numSamples - 1)
                  /\ samples[p][j].response.ordinal = samples[p][j].index
                  /\ samples[p][j].response.model = modelNames[p]
                  /\ samples[p][j].response = At(samplePromises[p], samples[p][j].index).response

\* a batch whose first query failed and whose second one was retained
C6_Witness ==
    \E p \in Pipelines :
        /\ Len(samplePromises[p]) >= 2
        /\ SampleFailed(samplePromises[p][1])
        /\ Len(samples[p]) >= 1
        /\ samples[p][1].index = 1

\* ---- C7 ---------------------------------------------------------------------------
\* C7: once the pipelines have been joined and the synthesis step is over
\* (fulfilled, rejected, answered by the sentinel, or skipped), or once the
\* process has ended after all pipelines returned, the artifact tree is
\* written and holds exactly the joined model results; a rejected synthesis
\* has been reported as a warning.
C7_PersistedWhateverSynthesisDoes ==
    /\ (SynthSettled \/ (Ended /\ ConfigPassed /\ AllPipelinesResolved)) =>
          /\ artifact.written
          /\ artifact.models = allModelResults
    /\ synth.state = "failed" => synth.warned /\ artifact.synthesisDoc = Undefined

\* the synthesis request threw and the results of a model are persisted
C7_Witness ==
    /\ synth.state = "failed"
    /\ artifact.written
    /\ Len(artifact.models) >= 1

\* ---- C8 ---------------------------------------------------------------------------
SomeRepresentativeOutput ==
    \E k \in 1 .. Len(allModelResults) : Truthy(RepresentativeOutput(allModelResults[k]))

\* C8: a synthesis request has been issued only if the synthesise flag is set
\* and some model result has a representative output; and once the pipelines
\* have been joined it has been issued if both hold.
C8_SynthesisIffFlagAndOutput ==
    /\ SynthRequested => (options.synthesise /\ SomeRepresentativeOutput)
    /\ (synth.state # "none" /\ options.synthesise /\ SomeRepresentativeOutput) => SynthRequested

\* a request was issued although one of two models failed entirely
C8_Witness ==
    /\ SynthRequested
    /\ NumPipelines >= 2
    /\ Len(allModelResults) = 1

\* ---- C9 ---------------------------------------------------------------------------
PipelineComplete(p) ==
    /\ pc[p] = "done"
    /\ AllSettled(samplePromises[p])
    /\ Len(samplePromises[p]) = options.numSamples
    /\ tracker[modelNames[p]].comparisonDone
    /\ options.liveFile => liveDoc.sections[p].kind \in {"error", "best", "merged"}

\* C9: the synthesis step is entered only after every pipeline has completed
\* (samples, judge step, live-document section); the artifact tree is written
\* only after the synthesis step is over, and never while a pipeline or the
\* synthesis request is still running.
C9_PhasesInOrder ==
    /\ synth.state # "none" => \A p \in Pipelines : PipelineComplete(p)
    /\ artifact.written => (SynthSettled /\ \A p \in Pipelines : PipelineComplete(p))
    /\ (phase \in {"resolving", "config_error", "awaiting", "synthesising"}) => artifact = NoArtifact

\* the synthesis request is in flight, with a live document, nothing persisted
C9_Witness ==
    /\ synth.state = "requested"
    /\ options.liveFile
    /\ NumPipelines >= 2
    /\ ~artifact.written

\* ---- C10 --------------------------------------------------------------------------
\* C10: a process that passed configuration resolution ends with status 0.
C10_ExitZeroAfterConfig ==
    (ConfigPassed /\ Ended) => exitCode = 0

\* ---- C11 --------------------------------------------------------------------------
\* the command line names a model that is unknown or not eligible, or a preset
\* that does not exist or has no eligible model
Misconfigured ==
    IF options.models # << >>
    THEN \E k \in 1 .. Len(options.models) :
            \/ options.models[k] \notin ConfigModelIds
            \/ options.models[k] \notin getEligibleModels
    ELSE \/ presetName(options) \notin PresetNames
         \/ \A k \in 1 .. Len(PresetModelList(presetName(options))) :
               PresetModelList(presetName(options))[k] \notin getEligibleModels

\* C11: a misconfigured run leaves configuration resolution only into the
\* error end, and a run that ended there has status 1, dispatched no query,
\* created no live document, started no pipeline and wrote no artifact.
C11_ConfigErrorBeforeAnyEffect ==
    /\ (phase # "resolving" /\ Misconfigured) => phase = "config_error"
    /\ phase = "config_error" =>
          /\ exitCode = 1
          /\ modelNames = << >>
          /\ samplePromises = << >>
          /\ dispatched = << >>
          /\ timersFired = 0
          /\ liveDoc = NoLiveDoc
          /\ synth = NoSynth
          /\ artifact = NoArtifact

\* --models names an eligible model and an unknown one, with --live-file
C11_Witness ==
    /\ phase = "config_error"
    /\ options.liveFile
    /\ Len(options.models) = 2
    /\ options.models[1] \in getEligibleModels
    /\ options.models[2] = UnknownModel

\* ---- C12 --------------------------------------------------------------------------
\* the value the precedence "CLI value, else preset value, else default" gives
Precedence(passed, presetValue, default) ==
    IF passed.defined THEN passed.numeral
    ELSE IF presetValue.defined THEN presetValue.tenths
    ELSE default

\* C12: each of numSamples, temperature and timeout resolves to the value
\* passed on the command line, else to the preset's value when the preset
\* defines one, else to the default 4, 0.8, 180.
C12_CliThenPresetThenDefault ==
    probe.fn = "settings" =>
        LET argv == probe.input.argv
            pc0 == probe.input.presetConfig
        IN
        /\ probe.output.numSamples =
              Precedence(argv.numSamples, PresetField(pc0, "num_samples"),
                         DefaultNumSamples * Tenths)
        /\ probe.output.temperature =
              Precedence(argv.temperature, PresetField(pc0, "temperature"),
                         DefaultTemperature)
        /\ probe.output.timeoutSeconds =
              Precedence(argv.timeout, PresetField(pc0, "timeout_seconds"),
                         DefaultTimeoutSeconds * Tenths)

JudgeRequestsInOrder(p) ==
    /\ Len(samples[p]) < 2 => (judge[p].primary = 0 /\ judge[p].secondary = 0)
    /\ Len(samples[p]) >= 2 => judge[p].primary = 1
    /\ judge[p].secondary <= 1
    /\ judge[p].secondary = 1 => (judge[p].primary = 1 /\ judge[p].primaryOutcome # "none")

C15_FallbackSelectsFirstLongest ==
    ~options.brainstorm =>
        \A k \in 1 .. Len(allModelResults) :
            LET mr == allModelResults[k] IN
            mr.note = "fallback" =>
                /\ HasIndex(mr.samples, mr.bestIndex)
                /\ \A j \in 0 .. (Len(mr.samples) - 1) :
                      /\ At(mr.samples, j).response.len <= Elem(mr.samples, mr.bestIndex).response.len
                      /\ j * Scale < mr.bestIndex =>
                           At(mr.samples, j).response.len < Elem(mr.samples, mr.bestIndex).response.len

\* fallback among two samples of equal length: the first one is selected
C15_Witness ==
    /\ ~options.brainstorm
    /\ \E k \in 1 .. Len(allModelResults) :
          LET mr == allModelResults[k] IN
          /\ mr.note = "fallback"
          /\ Len(mr.samples) = 2
          /\ mr.samples[1].response.len = mr.samples[2].response.len
          /\ mr.bestIndex = 0

\* ---- C16 --------------------------------------------------------------------------
\* the reply has no JSON object with a numeric best_index, or its best_index
\* is outside 1..sampleCount
Unusable(raw, sampleCount) ==
    raw.kind # "json" \/ raw.best < Scale \/ raw.best > Scale * sampleCount

\* C16: compareModelSamples, given a reply that cannot be parsed or whose
\* best_index is outside 1..sampleCount, returns the result of the
\* deterministic fallback: the fallback note and a position of the sample list.
C16_UnusableReplyFallsThrough ==
    (probe.fn = "compare" /\ Unusable(probe.input.raw, Len(probe.input.samples))) =>
        /\ probe.output.note = "fallback"
        /\ HasIndex(probe.input.samples, probe.output.bestIndex)
        /\ probe.output.bestIndex # probe.input.raw.best - Scale

\* a reply whose best_index is sampleCount + 1
C16_Witness ==
    /\ probe.fn = "compare"
    /\ probe.input.raw.kind = "json"
    /\ probe.input.raw.best = Scale * (Len(probe.input.samples) + 1)
    /\ probe.output.note = "fallback"

\* ---- C17 --------------------------------------------------------------------------
\* C17: brainstormModelSamples, when no merge request gave a text, returns the
\* fallback note and as merged output the concatenation of the texts of all
\* the samples it was given, in order, each under the label of the ordinal
\* (index + 1) of its sample.
C17_ConcatLabelsAreOrdinals ==
    (probe.fn = "brainstorm" /\ NoRaw(probe.input.raw)) =>
        LET smp == probe.input.samples
            merged == probe.output.mergedIdeas
        IN
        /\ probe.output.note = "fallback"
        /\ merged.origin = "concat"
        /\ merged.len = Len(smp)
        /\ \A j \in 1 .. Len(smp) :
              /\ merged.parts[j].text = smp[j].response
              /\ merged.parts[j].label = smp[j].index + 1

C19_AlwaysOneTaggedOutcome ==
    /\ query.pc \in {"idle", "awaiting", "returned"}
    /\ query.pc # "returned" => query.result = NoResult
    /\ query.pc = "returned" =>
          /\ query.result.status \in {"success", "error", "timeout"}
          /\ OutcomeOf(query.result) \in QueryOutcomes
          /\ query.result.status = "timeout" <=> query.aborted
          /\ query.result.hasResponse <=> query.result.status = "success"

\* the timer fired and the call returned the timeout outcome
C19_Witness ==
    /\ query.pc = "returned"
    /\ query.timer = "fired"
    /\ query.result.status = "timeout"

\* ---- C20 --------------------------------------------------------------------------
\* C20: a call for a model for which createModel returns null has returned an
\* error outcome with the "could not create model instance" message, without
\* a provider call and without a timer.
C20_NotInvocableIsAnError ==
    (query.pc # "idle" /\ createModel(query.model) = Null) =>
        /\ query.pc = "returned"
        /\ query.result.status = "error"
        /\ query.result.error = "could_not_create_model_instance"
        /\ ~query.result.hasResponse
        /\ query.calls = 0
        /\ query.timer = "none"

\* the call for the deep-research model has returned
C20_Witness ==
    /\ query.pc = "returned"
    /\ query.model = DeepResearchModel
    /\ query.result.status = "error"

\* ---- C21 --------------------------------------------------------------------------
\* C21: in every step a settled sample keeps its outcome, a sample in flight
\* stays in flight or settles, and when one sample settles (with success,
\* error or timeout) every other sample of every model is left as it was.
C21_SamplesSettleAlone ==
    [][ phase # "resolving" =>
          \A p \in Pipelines : \A k \in 1 .. Len(samplePromises[p]) :
              LET before == samplePromises[p][k]
                  after == samplePromises'[p][k]
              IN
              /\ before.state = "settled" => after = before
              /\ before.state = "inflight" => (after = before \/ after.state = "settled")
              /\ (before.state = "inflight" /\ after.state = "settled") =>
                    \A q \in Pipelines : \A j \in 1 .. Len(samplePromises[q]) :
                        (q # p \/ j # k) => samplePromises'[q][j] = samplePromises[q][j]
      ]_vars

\* a sample timed out while a sibling and a sample of another model are in flight
C21_Witness ==
    \E p, q \in Pipelines :
        /\ p # q
        /\ Len(samplePromises[p]) >= 2
        /\ samplePromises[p][1].status = "timeout"
        /\ samplePromises[p][2].state = "inflight"
        /\ samplePromises[q][1].state = "inflight"

\* ---- C22 --------------------------------------------------------------------------
\* counters never decrease and comparisonDone is never withdrawn
CountersAndDoneMonotone(name) ==
    /\ tracker'[name].completed >= tracker[name].completed
    /\ tracker'[name].failed >= tracker[name].failed
    /\ tracker[name].comparisonDone => tracker'[name].comparisonDone

\* C22 as stated: completed and failed never decrease, and comparing and
\* comparisonDone, once true, stay true.
C22_AllFieldsMonotone ==
    [][ \A name \in DOMAIN tracker :
          /\ CountersAndDoneMonotone(name)
          /\ tracker[name].comparing => tracker'[name].comparing
      ]_vars

\* C22, amended: completed and failed never decrease, comparisonDone once
\* true stays true, and comparing returns to false only in the step that sets
\* comparisonDone.
C22_MonotoneButComparing ==
    [][ \A name \in DOMAIN tracker :
          /\ CountersAndDoneMonotone(name)
          /\ (tracker[name].comparing /\ ~tracker'[name].comparing) =>
                (~tracker[name].comparisonDone /\ tracker'[name].comparisonDone)
      ]_vars

\* a model that was judged: its comparison is done and comparing is off again
C22_Witness ==
    \E p \in Pipelines :
        /\ judge[p].primary = 1
        /\ pc[p] = "done"
        /\ tracker[modelNames[p]].comparisonDone
        /\ ~tracker[modelNames[p]].comparing

\* ---- C23 --------------------------------------------------------------------------
SettledWith(p, statuses) ==
    Cardinality({ k \in 1 .. Len(samplePromises[p]) :
                    /\ samplePromises[p][k].state = "settled"
                    /\ samplePromises[p][k].status \in statuses })

\* C23: for every model, completed is the number of its samples settled with
\* success and failed the number settled with error or timeout; their sum
\* never exceeds total and is total once the batch has finished.
C23_CountersMatchSettledSamples ==
    ConfigPassed =>
        \A p \in Pipelines :
            LET m == tracker[modelNames[p]] IN
            /\ m.total = options.numSamples
            /\ m.completed = SettledWith(p, {"success"})
            /\ m.failed = SettledWith(p, {"error", "timeout"})
            /\ m.completed + m.failed <= m.total
            /\ pc[p] # "sampling" => m.completed + m.failed = m.total

\* a finished batch with one success and one failure
C23_Witness ==
    \E p \in Pipelines :
        /\ pc[p] # "sampling"
        /\ tracker[modelNames[p]].completed = 1
        /\ tracker[modelNames[p]].failed = 1

\* ---- C28 --------------------------------------------------------------------------
NonEmptyResponses(best) == { k \in 1 .. Len(best) : Truthy(best[k].response) }

\* C28: once synthesiseBestResponses has been called, either no model had a
\* non-empty response, the sentinel was returned and no request was issued, or
\* exactly one request was issued, whose input is the non-empty responses, all
\* of them and nothing else, in order.
C28_SentinelOrOneFilteredRequest ==
    synth.state \in {"sentinel", "requested", "ok", "failed"} =>
        LET best == BestResponses(allModelResults) IN
        IF NonEmptyResponses(best) = { }
        THEN synth.state = "sentinel" /\ synth.result = SentinelText /\ synth.requests = 0
        ELSE /\ synth.state # "sentinel"
             /\ synth.requests = 1
             /\ Len(synth.input) = Cardinality(NonEmptyResponses(best))
             /\ \A k \in 1 .. Len(synth.input) :
                    /\ Truthy(synth.input[k].response)
                    /\ \E j \in NonEmptyResponses(best) : best[j] = synth.input[k]
             /\ \A k \in 1 .. (Len(synth.input) - 1) :
                    IndexOf(modelNames, synth.input[k].modelName)
                        < IndexOf(modelNames, synth.input[k + 1].modelName)

\* a request from which the filter dropped a model's empty response
C28_Witness ==
    /\ synth.state = "requested"
    /\ synth.requests = 1
    /\ Len(synth.input) < Len(allModelResults)

\* ---- C29 --------------------------------------------------------------------------
\* C29: the synthesis document is in the artifact tree exactly when the
\* synthesis request was made and returned a synthesis; it is absent when
\* synthesis was skipped, failed, or had nothing to synthesise.
C29_SynthesisDocIffSynthesised ==
    artifact.written =>
        (Truthy(artifact.synthesisDoc) <=> (synth.state = "ok" /\ Truthy(synth.result)))

\* ---- C30 --------------------------------------------------------------------------
FilesNamed(mr, file) == { f \in PerModelFiles(mr) : f.file = file }

\* C30: for every model of the final results the directory holds one sample
\* file per retained sample, named by the sample's original ordinal and holding
\* its text, the report, and exactly one of best-response (the selected
\* sample's text) and merged-ideas (brainstorm mode only); a model without a
\* retained sample has no directory and no entry in responses.json.
C30_PerModelDirectoryComplete ==
    artifact.written =>
        /\ \A k \in 1 .. Len(artifact.models) :
              LET mr == artifact.models[k] IN
              /\ Cardinality(FilesNamed(mr, "sample")) = Len(mr.samples)
              /\ \A f \in FilesNamed(mr, "sample") :
                    f.content.origin = "sample" /\ f.content.ordinal = f.ordinal
              /\ Cardinality(FilesNamed(mr, "comparison")) = 1
              /\ Cardinality(FilesNamed(mr, "best-response")
                              \cup FilesNamed(mr, "merged-ideas")) = 1
              /\ FilesNamed(mr, "merged-ideas") # { } => options.brainstorm
              /\ \A f \in FilesNamed(mr, "best-response") :
                    \E j \in 1 .. Len(mr.samples) : f.content = mr.samples[j].response
        /\ \A p \in Pipelines :
              samples[p] = << >> =>
                  /\ modelNames[p] \notin PerModelDirs(artifact.models)
                  /\ \A k \in 1 .. Len(artifact.models) :
                        ResponsesJson(artifact.models)[k].model # modelNames[p]

\* ---- C26 --------------------------------------------------------------------------
\* C26: createModel returns null for a name that is not configured, for an
\* entry of type browser and for the providers openai-deep and gemini-deep,
\* and returns the model of the entry's provider for an api entry of openai,
\* google, xai or anthropic.
C26_CreateModelNullOrInvocable ==
    probe.fn = "createModel" =>
        LET mc == probe.input
            model == probe.output.model
        IN
        /\ mc = NoEntry => model = Null
        /\ mc.type = "browser" => model = Null
        /\ mc.provider \in {"openai-deep", "gemini-deep"} => model = Null
        /\ (mc.type = "api" /\ mc.provider \in {"openai", "google", "xai", "anthropic"}) =>
              (model # Null /\ model = mc.provider)

\* createModel was given a browser entry of a provider it knows
C26_Witness ==
    /\ probe.fn = "createModel"
    /\ probe.input.type = "browser"
    /\ probe.input.provider = "anthropic"
    /\ probe.output.model = Null

\* ---- C27 --------------------------------------------------------------------------
BrowserOnly(mc) == mc.type = "browser" \/ mc.requires_browser

DeepResearch(mc) == mc.deep_research \/ mc.provider \in {"openai-deep", "gemini-deep"}

WantedNames(models) ==
    { name \in 1 .. Len(models) : ~BrowserOnly(models[name]) /\ ~DeepResearch(models[name]) }

\* `short` is `long` with every element at a position outside `kept` removed
RestrictionOf(short, long, kept) ==
    /\ Len(short) = Cardinality(kept)
    /\ \E f \in [1 .. Len(short) -> kept] :
          /\ \A i \in 1 .. Len(short) : short[i] = long[f[i]]
          /\ \A i \in 1 .. (Len(short) - 1) : f[i] < f[i + 1]

\* C27: getEligibleModels returns each configured model that is neither
\* browser-only nor deep-research, once, and no other; getPresetModels returns
\* the preset's list with the names that are not eligible removed and the
\* order of the rest kept.
C27_EligibleAndPresetModels ==
    /\ probe.fn = "getEligibleModels" =>
          LET names == probe.output.names IN
          /\ Range(names) = WantedNames(probe.input.models)
          /\ Len(names) = Cardinality(WantedNames(probe.input.models))
    /\ probe.fn = "getPresetModels" =>
          LET presetList == probe.input.preset IN
          RestrictionOf(probe.output.names, presetList,
                        { k \in 1 .. Len(presetList) :
                            presetList[k] \in WantedNames(probe.input.models) })

\* a preset list that names an eligible entry and one kept out by
\* requires_browser: only the eligible one is left
C27_Witness ==
    /\ probe.fn = "getPresetModels"
    /\ Len(probe.input.models) = 2
    /\ probe.input.models[1].type = "api"
    /\ probe.input.models[1].requires_browser
    /\ probe.input.preset = << 2, 1 >>
    /\ probe.output.names = << 2 >>

\* ---- C24 --------------------------------------------------------------------------
\* what the section of the k-th selected model should read
SectionAsWritten(k) ==
    IF liveFile.written[k] = << >>
    THEN PlaceholderText(liveFile.names[k])
    ELSE << Heading(1, liveFile.names[k]) >> \o liveFile.written[k]

\* the file in which every update replaced its own section and nothing else
FileAsWritten ==
    MetadataBlock \o Flatten([k \in 1 .. Len(liveFile.names) |-> SectionAsWritten(k)])

\* C24: in every interleaving of the pipelines' updates, before the
\* synthesis, the file is the metadata block followed by the sections in
\* selection order, each holding what its own pipeline wrote, or the
\* placeholder if that pipeline has not written yet.
C24_EverySectionAsItsPipelineWroteIt ==
    (liveFile # NoLiveFile /\ liveFile.insertions = 0) => liveFile.content = FileAsWritten

\* ---- C25 --------------------------------------------------------------------------
\* the titles of the top-level headings, in file order
RECURSIVE TopTitles(_)
TopTitles(content) ==
    IF content = << >> THEN << >>
    ELSE (IF Head(content).kind = "heading" /\ Head(content).level = 1
          THEN << Head(content).title >> ELSE << >>) \o TopTitles(Tail(content))

\* C25: once the synthesis was inserted into a file whose sections were all
\* in place, the file has one top-level Synthesis section, it comes right
\* after the metadata block and before the model sections, which are still in
\* selection order; a second insertion leaves one Synthesis section.
C25_OneSynthesisAfterMetadata ==
    (liveFile.insertions >= 1
        /\ TopTitles(liveFile.beforeSynthesis) = << QueryTitle >> \o liveFile.names) =>
        /\ TopTitles(liveFile.content) = << QueryTitle, SynthesisTitle >> \o liveFile.names
        /\ SubSeq(liveFile.content, 1, Len(MetadataBlock)) = MetadataBlock
        /\ liveFile.content[Len(MetadataBlock) + 1] = Heading(1, SynthesisTitle)

\* ---- C31 --------------------------------------------------------------------------
\* a top-level heading of a model still followed by its placeholder line
PlaceholderShown(k) ==
    \E i \in 1 .. (Len(liveFile.content) - 1) :
        /\ liveFile.content[i] = Heading(1, liveFile.names[k])
        /\ liveFile.content[i + 1] = Text("placeholder", liveFile.names[k])

\* C31: once every pipeline has made its one section update (the error text
\* or the judged or merged result), no model's section still shows the
\* placeholder it was created with.
C31_NoPlaceholderAfterAllUpdates ==
    (liveFile # NoLiveFile /\ \A k \in 1 .. Len(liveFile.names) : liveFile.written[k] # << >>) =>
        \A k \in 1 .. Len(liveFile.names) : ~PlaceholderShown(k)

\* ---- C32 --------------------------------------------------------------------------
\* the text the claim names for a model result
NamedText(mr) ==
    IF options.brainstorm THEN mr.brainstormSummary
    ELSE IF HasIndex(mr.samples, mr.bestIndex)
         THEN Elem(mr.samples, mr.bestIndex).response
         ELSE Undefined

\* C32: what synthesiseBestResponses works from has one entry per model of the
\* final results, in selection order, and each entry's text is the selected
\* sample's text (selection mode) or the merged-ideas text (brainstorm mode),
\* and is not empty.
C32_SynthesisInputOnePerModel ==
    synth.state \in {"sentinel", "requested", "ok", "failed"} =>
        /\ Len(synth.input) = Len(allModelResults)
        /\ \A k \in 1 .. Len(synth.input) :
              /\ synth.input[k].modelName = allModelResults[k].modelName
              /\ Truthy(synth.input[k].response)
              /\ synth.input[k].response = NamedText(allModelResults[k])
        /\ ResultNames(allModelResults) = RestrictedOrder(ResultNames(allModelResults))

\* ---- C33 --------------------------------------------------------------------------
\* C33: the queries of a batch are started in ordinal order, and as long as a
\* query of the run has not been started the next start is possible whatever
\* the queries already started are doing.
C33_StartsInOrderWithoutWaiting ==
    (phase = "awaiting" /\ Alive) =>
        /\ \A p \in Pipelines : \A k \in 1 .. Len(samplePromises[p]) :
              (samplePromises[p][k].state = "pending") = (k > timersFired)
        /\ timersFired < options.numSamples => ENABLED TimersFire(timersFired)

\* all samples of two models in flight at the same time
C33_Witness ==
    /\ NumPipelines >= 2
    /\ \A p \in Pipelines :
          /\ Len(samplePromises[p]) >= 2
          /\ \A k \in 1 .. Len(samplePromises[p]) : samplePromises[p][k].state = "inflight"

\* ---- C34 --------------------------------------------------------------------------
\* the file best-response.md of a model result
BestResponseFile(mr) == { f.content : f \in FilesNamed(mr, "best-response") }

\* C34: in selection mode with a live file, for every model result whose
\* bestIndex is a position of its sample list, the sample numbered in the
\* heading is the one sample that carries the star, the number in the
\* comparison notes is the number in the heading, and best-response.md and the
\* text given to the synthesis are the text of that sample.
C34_OneBestSampleEverywhere ==
    (options.liveFile /\ ~options.brainstorm) =>
        \A k \in 1 .. Len(allModelResults) :
            LET mr == allModelResults[k] IN
            HasIndex(mr.samples, mr.bestIndex) =>
                /\ StarredNumbers(mr) = { BestHeadingNumber(mr) }
                /\ \A n \in ComparisonNoteNumbers(mr) : n = BestHeadingNumber(mr) * Scale
                /\ BestResponseFile(mr) = { Elem(mr.samples, mr.bestIndex).response }
                /\ RepresentativeOutput(mr) = Elem(mr.samples, mr.bestIndex).response
                /\ Elem(mr.samples, mr.bestIndex).response.ordinal = BestHeadingNumber(mr) - 1

\* ---- C35 --------------------------------------------------------------------------
\* C35: the bestIndex compareModelSamples returns is a whole number and a
\* position of the sample list it was given, for every reply of the judge.
C35_BestIndexIsAPosition ==
    probe.fn = "compare" =>
        /\ probe.output.bestIndex % Scale = 0
        /\ probe.output.bestIndex >= 0
        /\ probe.output.bestIndex < Scale * Len(probe.input.samples)

\* ---- C36 --------------------------------------------------------------------------
\* C36: once a model's batch has been collected, the number of retained
\* samples is the completed count of the tracker, and the model has no
\* retained sample only if its failed count is N.
C36_RetainedIsCompleted ==
    ConfigPassed =>
        \A p \in Pipelines :
            pc[p] # "sampling" =>
                /\ Len(samples[p]) = tracker[modelNames[p]].completed
                /\ samples[p] = << >> =>
                      tracker[modelNames[p]].failed = tracker[modelNames[p]].total

\* ---- C37 --------------------------------------------------------------------------
\* C37: for every model, comparing holds only when all its samples have
\* resolved and one succeeded, comparisonDone excludes comparing, and once
\* every pipeline has returned comparisonDone holds for every selected model.
C37_TrackerFlagsConsistent ==
    ConfigPassed =>
        /\ \A p \in Pipelines :
              LET m == tracker[modelNames[p]] IN
              /\ m.comparing => (m.completed + m.failed = m.total /\ m.completed >= 1)
              /\ m.comparisonDone => ~m.comparing
        /\ (phase \in {"synthesising", "done"} \/ artifact.written) =>
              \A p \in Pipelines : tracker[modelNames[p]].comparisonDone

\* a finished run of two models: all samples of one failed, the other was judged
C37_Witness ==
    /\ phase = "done"
    /\ \E p, q \in Pipelines :
          /\ tracker[modelNames[p]].failed = tracker[modelNames[p]].total
          /\ tracker[modelNames[p]].comparisonDone
          /\ judge[q].primary = 1
          /\ tracker[modelNames[q]].comparisonDone

\* ---- C38 --------------------------------------------------------------------------
\* C38: createModel returns a model for every configured entry that the
\* eligibility filter lets through.
C38_EligibleIsInvocable ==
    (probe.fn = "createModel" /\ probe.input # NoEntry
        /\ ~BrowserOnly(probe.input) /\ ~DeepResearch(probe.input)) =>
        probe.output.model # Null

====
